---- MODULE Spec2Model ----
(***************************************************************************)
(* Dependency resolution and caching of the skypack/snowpack installer:    *)
(* fetchCDNResource, resolveDependencyByName, resolveDependencyByUrl and   *)
(* generateImportMap of src/skypack/src/index.ts.                          *)
(* With them fetchCDN, lookupBySpecifier, loadByUrl and clearCache of the   *)
(* later version of that file, which read the same store under a freshness *)
(* policy.                                                                 *)
(*                                                                         *)
(* A JavaScript string is a sequence of tokens, a token being one          *)
(* character; the CDN origin is one token of its own.  The JavaScript      *)
(* value undefined is the one-token sequence UNDEFINED, which a template   *)
(* literal prints as the text "undefined".                                 *)
(***************************************************************************)
EXTENDS Integers, Sequences, FiniteSets, TLC

---------------------------------------------------------------------------
(* Bounds of the model *)

\* the largest number of sub-path segments of a specifier whose lookup URL is computed
MaxSegs == 2

\* the largest number of entries of webDependencies
MaxDeps == 2

\* the number of generateImportMap calls made one after the other
MaxRuns == 2

\* the number of entries of webDependencies when the queue is to fill up
QueueDeps == 17

\* the largest number of fetchCDN calls
MaxCalls == 2

\* the time at which the clock stops, in ticks
MaxTime == 3

---------------------------------------------------------------------------
(* Strings *)

\* the origin every CDN URL starts with
PIKA_CDN == <<"https://cdn.pika.dev">>

\* the JavaScript value undefined
UNDEFINED == <<"undefined">>

\* Boolean(x) of a string or undefined
Truthy(x) == x # UNDEFINED /\ x # <<>>

\* s.startsWith(p)
StartsWith(s, p) == Len(s) >= Len(p) /\ SubSeq(s, 1, Len(p)) = p

\* s.includes(c), c one token
Includes(s, c) == \E i \in 1..Len(s) : s[i] = c

\* s.split(sep): the pieces of s between the occurrences of the token sep
RECURSIVE Split(_, _)
Split(s, sep) ==
  IF \A i \in 1..Len(s) : s[i] # sep
    THEN <<s>>
    ELSE LET k == CHOOSE i \in 1..Len(s) :
                    s[i] = sep /\ \A j \in 1..(i - 1) : s[j] # sep
         IN  <<SubSeq(s, 1, k - 1)>> \o Split(SubSeq(s, k + 1, Len(s)), sep)

\* xs.filter(Boolean)
RECURSIVE FilterTruthy(_)
FilterTruthy(xs) ==
  IF xs = <<>> THEN <<>>
  ELSE IF Truthy(Head(xs)) THEN <<Head(xs)>> \o FilterTruthy(Tail(xs))
  ELSE FilterTruthy(Tail(xs))

\* xs.map((p) => '/' + p)
MapSlash(xs) == [i \in 1..Len(xs) |-> <<"/">> \o xs[i]]

\* String(xs) of an array, as a template literal prints it: the elements joined by ","
RECURSIVE ArrayToString(_)
ArrayToString(xs) ==
  IF xs = <<>> THEN <<>>
  ELSE IF Len(xs) = 1 THEN xs[1]
  ELSE xs[1] \o <<",">> \o ArrayToString(Tail(xs))

\* the element of a destructured array at position i, undefined past its end
At(xs, i) == IF i <= Len(xs) THEN xs[i] ELSE UNDEFINED

\* the rest element of a destructuring that has taken the first n elements
Rest(xs, n) == IF Len(xs) > n THEN SubSeq(xs, n + 1, Len(xs)) ELSE <<>>

\* the lookup URL resolveDependencyByName builds for an unpinned specifier
LookupUrl(installSpecifier, packageSemver) ==
  LET parts     == Split(installSpecifier, "/")
      specPart1 == At(parts, 1)
      specPart2 == At(parts, 2)
      specParts == Rest(parts, 2)
  IN  IF StartsWith(specPart1, <<"@">>)
        THEN PIKA_CDN \o <<"/">> \o specPart1 \o <<"/">> \o specPart2 \o <<"@">>
               \o packageSemver \o ArrayToString(MapSlash(FilterTruthy(specParts)))
        ELSE PIKA_CDN \o <<"/">> \o specPart1 \o <<"@">> \o packageSemver
               \o ArrayToString(MapSlash(FilterTruthy(<<specPart2>> \o specParts)))

\* the lookup URL of the older resolveDependencyByName: the specifier as a whole
LookupUrlWhole(installSpecifier, packageSemver) ==
  PIKA_CDN \o <<"/">> \o installSpecifier \o <<"@">> \o packageSemver

---------------------------------------------------------------------------
(* State *)

VARIABLES
  webDependencies,   \* generateImportMap's first argument, as Object.entries lists it
  lockfile,          \* generateImportMap's second argument: NULL or an import map
  cdn,               \* what the CDN answers for each URL right now
  inMemoryCDNCache,  \* the response memo of fetchCDNResource
  cache,             \* the cacache store RESOURCE_CACHE
  task,              \* the resolution task of each entry of webDependencies
  queue,             \* downloadQueue: the tasks added and not yet started
  pendingCount,      \* downloadQueue: the tasks started and not yet finished
  newLockfile,       \* newLockfile.imports
  resolutionError,   \* the recorded error
  genPc,             \* where the generateImportMap call stands
  run,               \* the number of generateImportMap calls made
  runs,              \* the number of generateImportMap calls the caller makes
  prev,              \* the outcome of the call before this one
  cdnStable,         \* no answer of the CDN has changed since the first call
  arg,               \* the arguments of a lookup-URL computation
  out,               \* its result
  now,               \* the time of the clock, in ticks
  call,              \* the fetchCDN calls made
  writes,            \* the cacache.put calls of fetchCDN that have not settled yet
  cleared            \* whether clearCache has completed with nothing written since,
                     \* and the entries it removed

\* the state that only fetchCDN and clearCache use
freshVars == <<now, call, writes, cleared>>

vars == <<webDependencies, lockfile, cdn, inMemoryCDNCache, cache, task, queue,
          pendingCount, newLockfile, resolutionError, genPc, run, runs, prev,
          cdnStable, arg, out, freshVars>>

\* clearCache has not been called, or the store was written after it
NotCleared == [is |-> FALSE, removed |-> [x \in {} |-> <<>>]]

\* no fetchCDN call has been made, and none is
NoFetchCDN == now = 0 /\ call = <<>> /\ writes = {} /\ cleared = NotCleared

\* the JavaScript value null
NULL == [null |-> TRUE]

\* no error recorded yet
NoError == [task |-> 0, kind |-> "none"]

\* a function with no argument: an empty Map, an empty object, an empty store
Empty == [x \in {} |-> UNDEFINED]

\* f with key k set to v
Put(f, k, v) == [x \in DOMAIN f \cup {k} |-> IF x = k THEN v ELSE f[x]]

\* obj[name], undefined when obj has no such property
Field(obj, name) == IF name \in DOMAIN obj THEN obj[name] ELSE UNDEFINED

---------------------------------------------------------------------------
(* The CDN *)

Headers(importStatus, importUrl, pinnedUrl, cacheControl) ==
  [xImportStatus |-> importStatus, xImportUrl |-> importUrl,
   xPinnedUrl |-> pinnedUrl, xTypescriptTypes |-> UNDEFINED,
   cacheControl |-> cacheControl]

Response(statusCode, headers, body) ==
  [statusCode |-> statusCode, headers |-> headers, body |-> body]

MaxAge   == <<"max-age=", "6", "0">>
PollPath == <<"/", "n">>
PinPath  == <<"/", "p">>
PinUrl   == PIKA_CDN \o PinPath

\* answers to a lookup request
LkSuccess ==
  Response(200, Headers(<<"SUCCESS">>, UNDEFINED, PinPath, MaxAge), <<"B1">>)
LkPending ==
  Response(200, Headers(<<"PENDING">>, PollPath, UNDEFINED, UNDEFINED), <<>>)
LkPendingMaxAge ==
  Response(200, Headers(<<"PENDING">>, PollPath, UNDEFINED, MaxAge), <<>>)
LkPendingNoUrl ==
  Response(200, Headers(<<"PENDING">>, UNDEFINED, UNDEFINED, UNDEFINED), <<>>)
LkFail ==
  Response(200, Headers(<<"FAIL">>, PollPath, UNDEFINED, UNDEFINED), <<>>)
LkNoStatus ==
  Response(200, Headers(UNDEFINED, UNDEFINED, UNDEFINED, UNDEFINED), <<>>)
NotFound ==
  Response(404, Headers(UNDEFINED, UNDEFINED, UNDEFINED, UNDEFINED), <<"E">>)
NotFoundMaxAge ==
  Response(404, Headers(UNDEFINED, UNDEFINED, UNDEFINED, MaxAge), <<"E">>)

\* answers to a request of a poll URL or of a pinned URL
Ok       == Response(200, Headers(UNDEFINED, UNDEFINED, UNDEFINED, UNDEFINED), <<"B1">>)
OkMaxAge == Response(200, Headers(UNDEFINED, UNDEFINED, UNDEFINED, MaxAge), <<"B1">>)

\* what the CDN answers for url now
Answer(url) == IF url \in DOMAIN cdn THEN cdn[url] ELSE NotFound

---------------------------------------------------------------------------
(* fetchCDNResource *)

\* resourceUrl made origin-qualified
NormalizeUrl(resourceUrl) ==
  IF StartsWith(resourceUrl, PIKA_CDN) THEN resourceUrl ELSE PIKA_CDN \o resourceUrl

\* headers['cache-control']?.includes('max-age=')
HasMaxAge(headers) ==
  headers.cacheControl # UNDEFINED /\ Includes(headers.cacheControl, "max-age=")

\* no response is kept
MemoizeNothing(memo, resourceUrl, response) == memo

\* only a 200 response is kept
MemoizeOnly200(memo, resourceUrl, response) ==
  IF response.statusCode = 200 /\ HasMaxAge(response.headers)
    THEN Put(memo, resourceUrl, response) ELSE memo

\* the memo after a response for resourceUrl has arrived
Memoize(memo, resourceUrl, response) ==
  IF HasMaxAge(response.headers) THEN Put(memo, resourceUrl, response) ELSE memo

---------------------------------------------------------------------------
(* A resolution task: one call of resolveDependencyByName.                *)
(* pc: "queued" not started; "cacheGet", "cachePut" awaiting cacache;     *)
(* "lookup", "poll", "fetchUrl" awaiting got; "resolved", "rejected" the  *)
(* call has returned or thrown; "done", "failed" the task has finished.   *)
(* awaiting is the URL of the got request the task waits for.  calls lists every fetchCDNResource call of the task that has returned. *)

NewTask(entry) ==
  [pc |-> "queued", installSpecifier |-> entry.spec, packageSemver |-> entry.semver,
   canRetry |-> TRUE, installUrl |-> UNDEFINED, awaiting |-> UNDEFINED, body |-> UNDEFINED,
   typesUrl |-> UNDEFINED, pinnedUrl |-> UNDEFINED, err |-> "none",
   cachePuts |-> 0, calls |-> <<>>]

Throw(t, kind) == [t EXCEPT !.pc = "rejected", !.err = kind]

Return(t, body, pinnedUrl) ==
  [t EXCEPT !.pc = "resolved", !.body = body, !.pinnedUrl = pinnedUrl]

\* a returned fetchCDNResource call: what it was for, where the response came
\* from, the response, and what the CDN would have answered at that moment
Called(t, kind, from, url, response) ==
  [t EXCEPT !.calls = Append(@, [kind |-> kind, from |-> from, url |-> url,
                                 response |-> response, cdnNow |-> Answer(url)])]

\* lockfile && lockfile.imports[installSpecifier]
Pinned(installSpecifier) ==
  /\ lockfile # NULL
  /\ installSpecifier \in DOMAIN lockfile.imports
  /\ Truthy(lockfile.imports[installSpecifier])

\* 'npm:@reactesm' and 'npm:@pika/react'
ReactEsm  == <<"n", "p", "m", ":", "@", "r", "e", "a", "c", "t", "e", "s", "m">>
PikaReact == <<"n", "p", "m", ":", "@", "p", "i", "k", "a", "/", "r", "e", "a", "c", "t">>

\* the returned fetchCDNResource calls of t that were for kind
CallsOf(t, kind) == {k \in 1..Len(t.calls) : t.calls[k].kind = kind}

\* the lookups and the polls t has made, the one it waits for included
Lookups(t) == Cardinality(CallsOf(t, "lookup")) + (IF t.pc = "lookup" THEN 1 ELSE 0)
Polls(t)   == Cardinality(CallsOf(t, "poll")) + (IF t.pc = "poll" THEN 1 ELSE 0)

\* the requests t has sent to the network, the one it waits for included
Requests(t) ==
  Cardinality({k \in 1..Len(t.calls) : t.calls[k].from = "net"})
    + (IF t.pc \in {"lookup", "poll", "fetchUrl"} THEN 1 ELSE 0)

\* a retry that allows one retry more
RetryFlagTwice(t) == Lookups(t) < 2

\* the canRetry argument of the retried call
RetryFlag(t) == FALSE

\* resolveDependencyByUrl up to its cacache.get
ByUrl(t, installUrl) ==
  [t EXCEPT !.pc = "cacheGet", !.installUrl = NormalizeUrl(installUrl)]

\* the body kept is the response's with the specifier of the task added to it
AfterFetchUrlTagsBody(t, response) ==
  IF response.statusCode # 200
    THEN Throw(t, "FailedToResolve")
    ELSE IF HasMaxAge(response.headers)
      THEN [t EXCEPT !.pc = "cachePut", !.body = response.body \o t.installSpecifier]
      ELSE Return(t, response.body \o t.installSpecifier, t.installUrl)

\* every 200 response is written to the store
AfterFetchUrlAlwaysPuts(t, response) ==
  IF response.statusCode # 200
    THEN Throw(t, "FailedToResolve")
    ELSE LET typesUrlPath == response.headers.xTypescriptTypes
             typesUrl == IF Truthy(typesUrlPath) THEN PIKA_CDN \o typesUrlPath
                         ELSE typesUrlPath
         IN  [t EXCEPT !.pc = "cachePut", !.body = response.body, !.typesUrl = typesUrl]

\* resolveDependencyByUrl from the response of its fetch on
AfterFetchUrl(t, response) ==
  IF response.statusCode # 200
    THEN Throw(t, "FailedToResolve")
    ELSE LET typesUrlPath == response.headers.xTypescriptTypes
             typesUrl == IF Truthy(typesUrlPath) THEN PIKA_CDN \o typesUrlPath
                         ELSE typesUrlPath
         IN  IF HasMaxAge(response.headers)
               THEN [t EXCEPT !.pc = "cachePut", !.body = response.body,
                              !.typesUrl = typesUrl]
               ELSE Return(t, response.body, t.installUrl)

\* resolveDependencyByUrl from the result of its cacache.get on
AfterCacheGet(t, cachedResult, memo) ==
  IF cachedResult # NULL
    THEN Return(t, cachedResult.data, Field(cachedResult.metadata, "pinnedUrl"))
    ELSE IF t.installUrl \in DOMAIN memo
      THEN AfterFetchUrl(Called(t, "url", "memo", t.installUrl, memo[t.installUrl]),
                         memo[t.installUrl])
      ELSE [t EXCEPT !.pc = "fetchUrl", !.awaiting = t.installUrl]

\* resolveDependencyByUrl once its cacache.put has resolved
AfterCachePut(t) ==
  Return([t EXCEPT !.cachePuts = @ + 1], t.body, t.installUrl)

RECURSIVE ByName(_, _), AfterLookup(_, _, _), AfterPoll(_, _, _)

\* the semver is checked before the lockfile is looked at
ByNameChecksFirst(t, memo) ==
  IF Includes(t.packageSemver, " ") \/ Includes(t.packageSemver, ":")
    THEN Throw(t, "ComplexSemver")
    ELSE IF Pinned(t.installSpecifier)
      THEN ByUrl(t, lockfile.imports[t.installSpecifier])
      ELSE LET installUrl == NormalizeUrl(LookupUrl(t.installSpecifier, t.packageSemver))
               t1 == [t EXCEPT !.installUrl = installUrl]
           IN  IF installUrl \in DOMAIN memo
                 THEN AfterLookup(Called(t1, "lookup", "memo", installUrl, memo[installUrl]),
                                  memo[installUrl], memo)
                 ELSE [t1 EXCEPT !.pc = "lookup", !.awaiting = installUrl]

\* the semver is checked for a space only, not for a colon
ByNameNoColonCheck(t, memo) ==
  IF Pinned(t.installSpecifier)
    THEN ByUrl(t, lockfile.imports[t.installSpecifier])
    ELSE IF Includes(t.packageSemver, " ")
      THEN Throw(t, "ComplexSemver")
    ELSE LET installUrl == NormalizeUrl(LookupUrl(t.installSpecifier, t.packageSemver))
             t1 == [t EXCEPT !.installUrl = installUrl]
         IN  IF installUrl \in DOMAIN memo
               THEN AfterLookup(Called(t1, "lookup", "memo", installUrl, memo[installUrl]),
                                memo[installUrl], memo)
               ELSE [t1 EXCEPT !.pc = "lookup", !.awaiting = installUrl]

\* resolveDependencyByName from its entry to its first await on got or cacache
ByName(t, memo) ==
  IF Pinned(t.installSpecifier)
    THEN ByUrl(t, lockfile.imports[t.installSpecifier])
    ELSE IF \/ StartsWith(t.packageSemver, ReactEsm)
            \/ StartsWith(t.packageSemver, PikaReact)
      THEN Throw(t, "ReactWorkaround")
    ELSE IF Includes(t.packageSemver, " ") \/ Includes(t.packageSemver, ":")
      THEN Throw(t, "ComplexSemver")
    ELSE LET installUrl == NormalizeUrl(LookupUrl(t.installSpecifier, t.packageSemver))
             t1 == [t EXCEPT !.installUrl = installUrl]
         IN  IF installUrl \in DOMAIN memo
               THEN AfterLookup(Called(t1, "lookup", "memo", installUrl, memo[installUrl]),
                                memo[installUrl], memo)
               ELSE [t1 EXCEPT !.pc = "lookup", !.awaiting = installUrl]

\* a failed build is polled like a pending one
AfterLookupPollsFail(t, response, memo) ==
  LET importUrlPath == response.headers.xImportUrl
      pinnedUrlPath == response.headers.xPinnedUrl
      buildStatus   == response.headers.xImportStatus
  IN  IF response.statusCode # 200 THEN Throw(t, "FailedToResolve")
      ELSE IF buildStatus = <<"SUCCESS">>
        THEN Return(t, response.body, PIKA_CDN \o pinnedUrlPath)
      ELSE IF ~t.canRetry THEN Throw(t, "FailedToBuild")
      ELSE IF ~Truthy(importUrlPath) THEN Throw(t, "ImportUrlExpected")
      ELSE LET pollUrl == NormalizeUrl(importUrlPath)
           IN  IF pollUrl \in DOMAIN memo
                 THEN AfterPoll(Called(t, "poll", "memo", pollUrl, memo[pollUrl]),
                                memo[pollUrl], memo)
                 ELSE [t EXCEPT !.pc = "poll", !.awaiting = pollUrl]

\* resolveDependencyByName from the response of its lookup on
AfterLookup(t, response, memo) ==
  LET importUrlPath == response.headers.xImportUrl
      pinnedUrlPath == response.headers.xPinnedUrl
      buildStatus   == response.headers.xImportStatus
  IN  IF response.statusCode # 200 THEN Throw(t, "FailedToResolve")
      ELSE IF buildStatus = <<"SUCCESS">>
        THEN Return(t, response.body, PIKA_CDN \o pinnedUrlPath)
      ELSE IF ~t.canRetry \/ buildStatus = <<"FAIL">> THEN Throw(t, "FailedToBuild")
      ELSE IF ~Truthy(importUrlPath) THEN Throw(t, "ImportUrlExpected")
      ELSE LET pollUrl == NormalizeUrl(importUrlPath)
           IN  IF pollUrl \in DOMAIN memo
                 THEN AfterPoll(Called(t, "poll", "memo", pollUrl, memo[pollUrl]),
                                memo[pollUrl], memo)
                 ELSE [t EXCEPT !.pc = "poll", !.awaiting = pollUrl]

\* the status of the poll is not looked at
AfterPollIgnoresStatus(t, response, memo) ==
  ByName([t EXCEPT !.canRetry = RetryFlag(t)], memo)

\* resolveDependencyByName from the response of its poll on
AfterPoll(t, response, memo) ==
  IF response.statusCode # 200
    THEN Throw(t, "UnexpectedResponse")
    ELSE ByName([t EXCEPT !.canRetry = RetryFlag(t)], memo)

---------------------------------------------------------------------------
(* downloadQueue and generateImportMap *)

\* new PQueue({concurrency: 16})
Concurrency == 16

\* the state of one generateImportMap call
Gen(t, q, p, n, e) ==
  [task |-> t, queue |-> q, pendingCount |-> p, newLockfile |-> n,
   resolutionError |-> e]

\* a task more than the ceiling may run
HasSlotOneMore(pending) == pending <= Concurrency

\* the queue may start a task
HasSlot(pending) == pending < Concurrency

\* the queue starts its first waiting task if it has a slot for it
TryToStartAnother(g, memo) ==
  IF g.queue # <<>> /\ HasSlot(g.pendingCount)
    THEN LET i == Head(g.queue)
         IN  [g EXCEPT !.queue = Tail(@), !.pendingCount = @ + 1,
                       !.task[i] = ByName(@, memo)]
    ELSE g

\* downloadQueue.add of every entry from the i-th on
RECURSIVE AddAll(_, _, _)
AddAll(g, i, memo) ==
  IF i > Len(webDependencies) THEN g
  ELSE AddAll(TryToStartAnother([g EXCEPT !.queue = Append(@, i)], memo), i + 1, memo)

\* resolutionError = err: the last error is the one kept
RecordErrorLast(recorded, err) == err

\* resolutionError = resolutionError || err
RecordError(recorded, err) == IF recorded # NoError THEN recorded ELSE err

\* the entry is written after the try block, whether the call returned or threw
SettleAlwaysWrites(g, i, memo) ==
  LET t  == g.task[i]
      g1 == IF t.pc = "resolved"
              THEN [g EXCEPT !.task[i].pc = "done",
                             !.newLockfile = Put(@, t.installSpecifier, t.pinnedUrl)]
              ELSE [g EXCEPT !.task[i].pc = "failed",
                             !.newLockfile = Put(@, t.installSpecifier, t.pinnedUrl),
                             !.resolutionError =
                                RecordError(@, [task |-> i, kind |-> t.err])]
  IN  TryToStartAnother([g1 EXCEPT !.pendingCount = @ - 1], memo)

\* the rest of task i once its resolveDependencyByName call has returned or
\* thrown, and the queue's next step after it
Settle(g, i, memo) ==
  LET t  == g.task[i]
      g1 == IF t.pc = "resolved"
              THEN [g EXCEPT !.task[i].pc = "done",
                             !.newLockfile = Put(@, t.installSpecifier, t.pinnedUrl)]
              ELSE [g EXCEPT !.task[i].pc = "failed",
                             !.resolutionError =
                                RecordError(@, [task |-> i, kind |-> t.err])]
  IN  TryToStartAnother([g1 EXCEPT !.pendingCount = @ - 1], memo)

\* every task whose call has returned or thrown runs to its end, first started first
RECURSIVE Drain(_, _)
Drain(g, memo) ==
  LET ready == {i \in DOMAIN g.task : g.task[i].pc \in {"resolved", "rejected"}}
  IN  IF ready = {} THEN g
      ELSE Drain(Settle(g, CHOOSE i \in ready : \A j \in ready : i <= j, memo), memo)

\* the variables of the call take the values of g
Becomes(g) ==
  /\ task' = g.task
  /\ queue' = g.queue
  /\ pendingCount' = g.pendingCount
  /\ newLockfile' = g.newLockfile
  /\ resolutionError' = g.resolutionError

Current == Gen(task, queue, pendingCount, newLockfile, resolutionError)

\* task i has moved on to t
Step(i, t, memo) == Becomes(Drain([Current EXCEPT !.task[i] = t], memo))

---------------------------------------------------------------------------
(* Inputs *)

\* the specifiers of webDependencies: "a", "b", ...
Letters == <<"a", "b", "c", "d", "e", "f", "g", "h", "i", "j", "k", "l", "m",
             "n", "o", "p", "q", "r", "s", "t", "u", "v", "w", "x", "y", "z">>
Specifier(k) == <<Letters[k]>>

\* a simple semver, and one with a space in it
Simple  == <<"1">>
Complex == <<"1", " ", "2">>

\* a semver with a colon in it, the semvers of the two React workaround
\* packages, and 'latest'
Colon           == <<"n", "p", "m", ":", "x">>
ReactEsmSemver  == ReactEsm \o <<"/", "r">>
PikaReactSemver == PikaReact
Latest          == <<"l", "a", "t", "e", "s", "t">>
Semvers == {Simple, Complex, Colon, ReactEsmSemver, PikaReactSemver, Latest}

\* the maps {a: v1, b: v2, ...} of at most MaxDeps entries, in the order of their keys
RECURSIVE DepsFrom(_)
DepsFrom(k) ==
  IF k > MaxDeps THEN {<<>>}
  ELSE LET rest == DepsFrom(k + 1)
       IN  rest \cup {<<[spec |-> Specifier(k), semver |-> v]>> \o r :
                        v \in {Simple, Complex}, r \in rest}

\* the lockfiles for deps: null, or pins of some of its specifiers to the pinned
\* URL, written with its origin or as a path
Lockfiles(deps) ==
  {NULL} \cup
  {[imports |-> f] :
     f \in UNION {[S -> {PinUrl, PinPath}] :
                    S \in SUBSET {deps[i].spec : i \in 1..Len(deps)} \ {{}}}}

LookupUrls == {LookupUrl(Specifier(k), v) : k \in 1..MaxDeps, v \in {Simple, Latest}}
PollUrl    == PIKA_CDN \o PollPath


\* the URLs a generateImportMap(deps, lock) call can request: the lookup URLs of
\* its unpinned entries whose semver passes the checks, with the poll URL, and
\* the pinned URL
Requested(deps, lock) ==
  LET pinned  == {i \in 1..Len(deps) :
                    lock # NULL /\ deps[i].spec \in DOMAIN lock.imports}
      lookups == {i \in 1..Len(deps) :
                    i \notin pinned /\ deps[i].semver \in {Simple, Latest}}
  IN  {LookupUrl(deps[i].spec, deps[i].semver) : i \in lookups}
        \cup (IF lookups # {} THEN {PollUrl} ELSE {})
        \cup (IF pinned # {} THEN {PinUrl} ELSE {})

LookupAnswers == {LkSuccess, LkPending, LkPendingMaxAge, LkPendingNoUrl, LkFail, NotFound}
OtherAnswers  == {Ok, OkMaxAge, NotFound, NotFoundMaxAge}

\* the answers the CDN may give for url
Answers(url) == IF url \in LookupUrls THEN LookupAnswers ELSE OtherAnswers

\* an entry of the store written by resolveDependencyByUrl
UrlEntry(installUrl, body, typesUrl) ==
  [data |-> body, metadata |-> [installUrl |-> installUrl, typesUrl |-> typesUrl]]

NoPrev == [genPc |-> "none", newLockfile |-> Empty, task |-> <<>>]

---------------------------------------------------------------------------
(* Actions *)

\* generateImportMap(webDependencies, lockfile) up to its await of onIdle
Generate ==
  /\ genPc \in {"idle", "returned", "rejected"}
  /\ run < runs
  /\ run' = run + 1
  /\ prev' = IF run = 0 THEN NoPrev
             ELSE [genPc |-> genPc, newLockfile |-> newLockfile, task |-> task]
  /\ genPc' = "onIdle"
  /\ LET fresh == [i \in 1..Len(webDependencies) |-> NewTask(webDependencies[i])]
         g0 == Gen(fresh, <<>>, 0, Empty, NoError)
     IN  Becomes(Drain(AddAll(g0, 1, inMemoryCDNCache), inMemoryCDNCache))
  /\ UNCHANGED <<freshVars, webDependencies, lockfile, cdn, inMemoryCDNCache, cache, runs,
                 cdnStable, arg, out>>

\* downloadQueue.onEmpty() instead: no task waits, some may still run
IdleOnEmpty(q, pending) == q = <<>>

\* downloadQueue.onIdle() may resolve
Idle(q, pending) == q = <<>> /\ pending = 0

\* generateImportMap from the resolution of onIdle on
OnIdle ==
  /\ genPc = "onIdle"
  /\ Idle(queue, pendingCount)
  /\ genPc' = IF resolutionError # NoError THEN "rejected" ELSE "returned"
  /\ UNCHANGED <<freshVars, webDependencies, lockfile, cdn, inMemoryCDNCache, cache, task, queue,
                 pendingCount, newLockfile, resolutionError, run, runs, prev, cdnStable,
                 arg, out>>

\* the continuation of the call that awaits a response
AfterGot(t, response, memo) ==
  CASE t.pc = "lookup"   -> AfterLookup(t, response, memo)
    [] t.pc = "poll"     -> AfterPoll(t, response, memo)
    [] t.pc = "fetchUrl" -> AfterFetchUrl(t, response)

CallKind(t) == IF t.pc = "fetchUrl" THEN "url" ELSE t.pc

\* got resolves with the CDN's answer: fetchCDNResource from line 26 on, and its caller
GotResolves(i) ==
  /\ task[i].pc \in {"lookup", "poll", "fetchUrl"}
  /\ LET t        == task[i]
         response == Answer(t.awaiting)
         memo     == Memoize(inMemoryCDNCache, t.awaiting, response)
     IN  /\ inMemoryCDNCache' = memo
         /\ Step(i, AfterGot(Called(t, CallKind(t), "net", t.awaiting, response),
                             response, memo), memo)
  /\ UNCHANGED <<freshVars, webDependencies, lockfile, cdn, cache, genPc, run, runs, prev, cdnStable,
                 arg, out>>

\* got rejects: the request failed on the network
GotRejects(i) ==
  /\ task[i].pc \in {"lookup", "poll", "fetchUrl"}
  /\ Step(i, Throw(task[i], "NetworkError"), inMemoryCDNCache)
  /\ UNCHANGED <<freshVars, webDependencies, lockfile, cdn, inMemoryCDNCache, cache, genPc, run,
                 runs, prev, cdnStable, arg, out>>

\* cacache.get resolves with the entry of the URL
CacheGetResolves(i) ==
  /\ task[i].pc = "cacheGet"
  /\ task[i].installUrl \in DOMAIN cache
  /\ Step(i, AfterCacheGet(task[i], cache[task[i].installUrl], inMemoryCDNCache),
          inMemoryCDNCache)
  /\ UNCHANGED <<freshVars, webDependencies, lockfile, cdn, inMemoryCDNCache, cache, genPc, run,
                 runs, prev, cdnStable, arg, out>>

\* cacache.get rejects, for want of an entry or on a read error: .catch(() => null)
CacheGetRejects(i) ==
  /\ task[i].pc = "cacheGet"
  /\ Step(i, AfterCacheGet(task[i], NULL, inMemoryCDNCache), inMemoryCDNCache)
  /\ UNCHANGED <<freshVars, webDependencies, lockfile, cdn, inMemoryCDNCache, cache, genPc, run,
                 runs, prev, cdnStable, arg, out>>

\* cacache.put resolves: the entry is written
CachePutResolves(i) ==
  /\ task[i].pc = "cachePut"
  /\ cache' = Put(cache, task[i].installUrl,
                  UrlEntry(task[i].installUrl, task[i].body, task[i].typesUrl))
  /\ Step(i, AfterCachePut(task[i]), inMemoryCDNCache)
  /\ UNCHANGED <<freshVars, webDependencies, lockfile, cdn, inMemoryCDNCache, genPc, run, runs,
                 prev, cdnStable, arg, out>>

\* cacache.put rejects: nothing is written
CachePutRejects(i) ==
  /\ task[i].pc = "cachePut"
  /\ Step(i, Throw(task[i], "CachePutError"), inMemoryCDNCache)
  /\ UNCHANGED <<freshVars, webDependencies, lockfile, cdn, inMemoryCDNCache, cache, genPc, run,
                 runs, prev, cdnStable, arg, out>>

\* what the CDN may answer for url after answer: the build of a package ends, with
\* success or failure, or the package is withdrawn, and a pinned URL is published
\* again with another body
Changes(url, answer) ==
  IF answer.headers.xImportStatus = <<"PENDING">> THEN {LkSuccess, LkFail, NotFound}
  ELSE IF url = PinUrl /\ answer.body = <<"B1">> THEN {[answer EXCEPT !.body = <<"B2">>]}
  ELSE {}

\* the CDN changes its answer for a URL while a call is under way
CdnChanges(url) ==
  /\ genPc = "onIdle"
  /\ \E answer \in Changes(url, cdn[url]) : cdn' = [cdn EXCEPT ![url] = answer]
  /\ cdnStable' = FALSE
  /\ UNCHANGED <<freshVars, webDependencies, lockfile, inMemoryCDNCache, cache, task, queue,
                 pendingCount, newLockfile, resolutionError, genPc, run, runs, prev,
                 arg, out>>

---------------------------------------------------------------------------
(* Specification *)

\* the caller makes n calls with a map of at most MaxDeps - less entries
Start(n, less) ==
  /\ webDependencies \in {d \in DepsFrom(1) : Len(d) <= MaxDeps - less}
  /\ runs = n
  /\ lockfile \in Lockfiles(webDependencies)
  /\ cdn \in {f \in [Requested(webDependencies, lockfile)
                          -> LookupAnswers \cup OtherAnswers] :
                 \A url \in DOMAIN f : f[url] \in Answers(url)}
  /\ inMemoryCDNCache = Empty
  /\ cache = Empty
  /\ task = <<>>
  /\ queue = <<>>
  /\ pendingCount = 0
  /\ newLockfile = Empty
  /\ resolutionError = NoError
  /\ genPc = "idle"
  /\ run = 0
  /\ prev = NoPrev
  /\ cdnStable = TRUE
  /\ NoFetchCDN
  /\ arg = <<>>
  /\ out = <<>>

\* one call of generateImportMap
Init == Start(1, 0)

\* MaxRuns calls of generateImportMap, one after the other
InitAgain == Start(MaxRuns, 1)

Next ==
  \/ Generate
  \/ OnIdle
  \/ \E i \in DOMAIN task : GotResolves(i)
  \/ \E i \in DOMAIN task : GotRejects(i)
  \/ \E i \in DOMAIN task : CacheGetResolves(i)
  \/ \E i \in DOMAIN task : CacheGetRejects(i)
  \/ \E i \in DOMAIN task : CachePutResolves(i)
  \/ \E i \in DOMAIN task : CachePutRejects(i)
  \/ \E url \in DOMAIN cdn : CdnChanges(url)

Spec == Init /\ [][Next]_vars

SpecAgain == InitAgain /\ [][Next]_vars

---------------------------------------------------------------------------
(* One specifier, of any kind of semver, a CDN that may answer 404 with a
   cache-control header or a lookup without a build status, and a store that
   may hold the pinned URL already *)

InitOne ==
  /\ webDependencies \in {<<[spec |-> Specifier(1), semver |-> v]>> : v \in Semvers}
  /\ runs = 1
  /\ lockfile \in Lockfiles(webDependencies)
  /\ cdn \in {f \in [Requested(webDependencies, lockfile)
                          -> LookupAnswers \cup OtherAnswers
                               \cup {NotFoundMaxAge, LkNoStatus}] :
                 \A url \in DOMAIN f :
                   \/ f[url] \in Answers(url) \cup {NotFoundMaxAge}
                   \/ url \in LookupUrls /\ f[url] = LkNoStatus}
  /\ inMemoryCDNCache = Empty
  /\ cache \in {Empty} \cup
               (IF lockfile = NULL THEN {}
                ELSE {[url \in {PinUrl} |-> UrlEntry(PinUrl, <<"B1">>, UNDEFINED)]})
  /\ task = <<>>
  /\ queue = <<>>
  /\ pendingCount = 0
  /\ newLockfile = Empty
  /\ resolutionError = NoError
  /\ genPc = "idle"
  /\ run = 0
  /\ prev = NoPrev
  /\ cdnStable = TRUE
  /\ NoFetchCDN
  /\ arg = <<>>
  /\ out = <<>>

SpecOne == InitOne /\ [][Next]_vars

---------------------------------------------------------------------------
(* A full queue: more pinned specifiers than the queue runs at once, their URL
   in the store already, and no read of the store failing *)

InitQueue ==
  /\ webDependencies = [k \in 1..QueueDeps |-> [spec |-> Specifier(k), semver |-> Simple]]
  /\ runs = 1
  /\ lockfile = [imports |-> [s \in {Specifier(k) : k \in 1..QueueDeps} |-> PinPath]]
  /\ cdn = [url \in {PinUrl} |-> OkMaxAge]
  /\ inMemoryCDNCache = Empty
  /\ cache = [url \in {PinUrl} |-> UrlEntry(PinUrl, <<"B1">>, UNDEFINED)]
  /\ task = <<>>
  /\ queue = <<>>
  /\ pendingCount = 0
  /\ newLockfile = Empty
  /\ resolutionError = NoError
  /\ genPc = "idle"
  /\ run = 0
  /\ prev = NoPrev
  /\ cdnStable = TRUE
  /\ NoFetchCDN
  /\ arg = <<>>
  /\ out = <<>>

NextQueue ==
  \/ Generate
  \/ OnIdle
  \/ \E i \in DOMAIN task : CacheGetResolves(i)

SpecQueue == InitQueue /\ [][NextQueue]_vars

---------------------------------------------------------------------------
(* The lookup URL of a specifier *)

\* the specifiers [@s/]name[/x][/y]... and the semvers the URL is computed for
Args ==
  [scope : {<<>>, <<"@", "s">>}, name : {<<"p">>, <<"q">>},
   path : UNION {[1..n -> {<<"x">>, <<"y">>}] : n \in 0..MaxSegs},
   semver : {<<"1">>, <<"2", ".", "1", ".", "0">>}]

\* the segments of a sub-path, each after a "/"
RECURSIVE Slashed(_)
Slashed(path) == IF path = <<>> THEN <<>> ELSE <<"/">> \o Head(path) \o Slashed(Tail(path))

\* the package name of a, with its scope
PackageName(a) == (IF a.scope = <<>> THEN <<>> ELSE a.scope \o <<"/">>) \o a.name

\* the specifier a stands for
SpecifierOf(a) == PackageName(a) \o Slashed(a.path)

InitUrl ==
  /\ arg \in Args
  /\ out = [url |-> <<>>, whole |-> <<>>]
  /\ webDependencies = <<>>
  /\ runs = 0
  /\ lockfile = NULL
  /\ cdn = Empty
  /\ inMemoryCDNCache = Empty
  /\ cache = Empty
  /\ task = <<>>
  /\ queue = <<>>
  /\ pendingCount = 0
  /\ newLockfile = Empty
  /\ resolutionError = NoError
  /\ genPc = "idle"
  /\ run = 0
  /\ prev = NoPrev
  /\ cdnStable = TRUE
  /\ NoFetchCDN

\* lines 76 to 87 of resolveDependencyByName
ComputeLookupUrl ==
  /\ out.url = <<>>
  /\ out' = [out EXCEPT !.url = LookupUrl(SpecifierOf(arg), arg.semver)]
  /\ UNCHANGED <<freshVars, webDependencies, lockfile, cdn, inMemoryCDNCache, cache, task, queue,
                 pendingCount, newLockfile, resolutionError, genPc, run, runs, prev,
                 cdnStable, arg>>

\* lines 46 and 47 of the older resolveDependencyByName
ComputeLookupUrlWhole ==
  /\ out.whole = <<>>
  /\ out' = [out EXCEPT !.whole = LookupUrlWhole(SpecifierOf(arg), arg.semver)]
  /\ UNCHANGED <<freshVars, webDependencies, lockfile, cdn, inMemoryCDNCache, cache, task, queue,
                 pendingCount, newLockfile, resolutionError, genPc, run, runs, prev,
                 cdnStable, arg>>

NextUrl == ComputeLookupUrl \/ ComputeLookupUrlWhole

SpecUrl == InitUrl /\ [][NextUrl]_vars

---------------------------------------------------------------------------
(* fetchCDN: the store read under the freshness policy.  Time is counted in
   ticks, TicksPerSecond of them to the second; a Date is a number of ticks,
   and the string toUTCString makes of it names a whole number of seconds. *)

\* the origin every URL of fetchCDN starts with
SKYPACK_ORIGIN == PIKA_CDN

TicksPerSecond == 2

\* the time value of an invalid Date
NaN == -1

\* date.toUTCString(): the second the date is in, its milliseconds being lost
ToUTCString(date) == [utc |-> date \div TicksPerSecond]

\* new Date(metadata.freshUntil)
FreshUntilOf(metadata) ==
  IF "freshUntil" \in DOMAIN metadata
    THEN metadata.freshUntil.utc * TicksPerSecond
    ELSE NaN

\* a >= b of two Dates, false when a is invalid
NotBefore(a, b) == a # NaN /\ a >= b

Digits == <<"0", "1", "2", "3", "4", "5", "6", "7", "8", "9">>
IsDigit(c) == \E d \in 1..10 : Digits[d] = c
DigitValue(c) == (CHOOSE d \in 1..10 : Digits[d] = c) - 1

\* the digits s starts with
RECURSIVE LeadingDigits(_)
LeadingDigits(s) ==
  IF s # <<>> /\ IsDigit(Head(s)) THEN <<Head(s)>> \o LeadingDigits(Tail(s)) ELSE <<>>

\* parseInt of a string of digits
RECURSIVE ParseInt(_)
ParseInt(ds) ==
  IF ds = <<>> THEN 0
  ELSE ParseInt(SubSeq(ds, 1, Len(ds) - 1)) * 10 + DigitValue(ds[Len(ds)])

\* cacheControl?.match(/max-age=(\d+)/): the digits captured, <<>> without a match
MaxAgeMatch(cacheControl) ==
  LET hits == {i \in 1..Len(cacheControl) :
                 /\ cacheControl[i] = "max-age="
                 /\ LeadingDigits(SubSeq(cacheControl, i + 1, Len(cacheControl))) # <<>>}
  IN  IF hits = {} THEN <<>>
      ELSE LET i == CHOOSE h \in hits : \A g \in hits : h <= g
           IN  LeadingDigits(SubSeq(cacheControl, i + 1, Len(cacheControl)))

\* freshUntil.setSeconds(freshUntil.getSeconds() + parseInt(digits)) of the Date date
SetSeconds(date, digits) == date + ParseInt(digits) * TicksPerSecond

\* the max-age of the response is not added to the time
FreshEntryOfNow(response, at) ==
  [data |-> response.body,
   metadata |-> [headers |-> response.headers, statusCode |-> response.statusCode,
                 freshUntil |-> ToUTCString(at)],
   at |-> at]

\* the entry fetchCDN writes for a response received at the time at
FreshEntry(response, at) ==
  [data |-> response.body,
   metadata |-> [headers |-> response.headers, statusCode |-> response.statusCode,
                 freshUntil |-> ToUTCString(
                    SetSeconds(at, MaxAgeMatch(response.headers.cacheControl)))],
   at |-> at]

\* what fetchCDN returns
Result(body, headers, statusCode, isCached, isStale) ==
  [body |-> body, headers |-> headers, statusCode |-> statusCode,
   isCached |-> isCached, isStale |-> isStale]

\* what fetchCDN returns of an entry of the store
Cached(cachedResult, isStale) ==
  Result(cachedResult.data, Field(cachedResult.metadata, "headers"),
         Field(cachedResult.metadata, "statusCode"), TRUE, isStale)

\* a call of fetchCDN up to its cacache.get
NewCall(resourceUrl) ==
  [pc |-> "cacheGet",
   resourceUrl |-> IF StartsWith(resourceUrl, SKYPACK_ORIGIN) THEN resourceUrl
                   ELSE SKYPACK_ORIGIN \o resourceUrl,
   cachedResult |-> NULL, read |-> "none", readAt |-> NaN,
   got |-> "none", gotAt |-> NaN, puts |-> 0, put |-> "none", result |-> NULL,
   err |-> "none", via |-> "fetchCDN", value |-> NULL]

\* the entry read is never returned before the network has been asked
AfterFreshGetAlwaysFetches(c, cachedResult, read) ==
  [c EXCEPT !.cachedResult = cachedResult, !.read = read, !.readAt = now, !.pc = "got"]

\* fetchCDN from the result of its cacache.get to its await of got
AfterFreshGet(c, cachedResult, read) ==
  LET c1 == [c EXCEPT !.cachedResult = cachedResult, !.read = read, !.readAt = now]
  IN  IF cachedResult = NULL THEN [c1 EXCEPT !.pc = "got"]
      ELSE IF "metadata" \notin DOMAIN cachedResult
        THEN [c1 EXCEPT !.pc = "thrown", !.err = "TypeError"]
      ELSE IF NotBefore(FreshUntilOf(cachedResult.metadata), now)
        THEN [c1 EXCEPT !.pc = "returned", !.result = Cached(cachedResult, FALSE)]
      ELSE [c1 EXCEPT !.pc = "got"]

\* the state that fetchCDN and clearCache leave alone
installVars == <<webDependencies, lockfile, cdn, inMemoryCDNCache, task, queue,
                 pendingCount, newLockfile, resolutionError, genPc, run, runs, prev,
                 cdnStable, arg, out>>

\* the URLs fetchCDN is called with: a path, and the same with its origin
QPath == <<"/", "q">>
QUrl  == SKYPACK_ORIGIN \o QPath
FetchArgs == {PinPath, PinUrl}

\* what loadByUrl returns once its fetchCDN call has settled
AfterLoadByUrl(c) ==
  IF c.pc = "returned"
    THEN [c EXCEPT !.value = [error |-> "null", body |-> c.result.body,
                              isCached |-> c.result.isCached,
                              isStale |-> c.result.isStale]]
    ELSE [c EXCEPT !.value = [error |-> c.err]]

\* the headers fetchCDN returned are those of a response, or of an entry of the
\* store whose metadata has headers
HasHeaders(c) == ~c.result.isCached \/ "headers" \in DOMAIN c.cachedResult.metadata

\* what lookupBySpecifier returns once its fetchCDN call has settled: reading a
\* header of headers that are undefined throws inside the try
AfterLookupBySpecifier(c) ==
  IF c.pc = "returned"
    THEN LET headers == c.result.headers
         IN  IF ~HasHeaders(c)
               THEN [c EXCEPT !.value = [error |-> "TypeError"]]
               ELSE [c EXCEPT !.value =
                       [error |-> "null", body |-> c.result.body,
                        isCached |-> c.result.isCached, isStale |-> c.result.isStale,
                        importStatus |-> headers.xImportStatus,
                        importUrl |-> headers.xImportUrl,
                        pinnedUrl |-> headers.xPinnedUrl,
                        typesUrl |-> headers.xTypescriptTypes]]
    ELSE [c EXCEPT !.value = [error |-> c.err]]

\* the caller of fetchCDN resumes as soon as the call has settled
AfterFetchCDN(c) ==
  IF c.pc \notin {"returned", "thrown"} THEN c
  ELSE CASE c.via = "loadByUrl"         -> AfterLoadByUrl(c)
         [] c.via = "lookupBySpecifier" -> AfterLookupBySpecifier(c)
         [] OTHER                       -> c

\* a semverMap argument: null, or a record of semver strings by package name
NoSemverMap == [null |-> TRUE, semvers |-> Empty]
SemverMap(semvers) == [null |-> FALSE, semvers |-> semvers]

\* a packagePath that is null
NoPath == <<"null">>

\* the lookup URL of lookupBySpecifier, of the two parts of the specifier
LookupBySpecifierUrl(packageName, packagePath, semverMap) ==
  LET semverString == IF ~semverMap.null /\ packageName \in DOMAIN semverMap.semvers
                        THEN semverMap.semvers[packageName] ELSE UNDEFINED
  IN  <<"/">> \o packageName
        \o (IF Truthy(semverString) THEN <<"@">> \o semverString ELSE <<>>)
        \o (IF packagePath # NoPath /\ Truthy(packagePath) THEN <<"/">> \o packagePath
            ELSE <<>>)

\* the call record after its cacache.put has settled: .catch(() => null)
AfterPutSurfaces(c, settled) ==
  IF settled = "failed"
    THEN [c EXCEPT !.put = settled, !.pc = "thrown", !.err = "CachePutError",
                   !.result = NULL]
    ELSE [c EXCEPT !.put = settled]

AfterPut(c, settled) == [c EXCEPT !.put = settled]

\* fetchCDN(resourceUrl) up to its await of cacache.get
FetchCDN(resourceUrl) ==
  /\ Len(call) < MaxCalls
  /\ call' = Append(call, NewCall(resourceUrl))
  /\ UNCHANGED <<installVars, cache, now, writes, cleared>>

\* loadByUrl(url) up to the await of cacache.get of its fetchCDN call
LoadByUrl(url) ==
  /\ Len(call) < MaxCalls
  /\ call' = Append(call, [NewCall(url) EXCEPT !.via = "loadByUrl"])
  /\ UNCHANGED <<installVars, cache, now, writes, cleared>>

\* lookupBySpecifier(spec, semverMap), spec parsed into packageName and
\* packagePath, up to the await of cacache.get of its fetchCDN call
LookupBySpecifier(packageName, packagePath, semverMap) ==
  /\ Len(call) < MaxCalls
  /\ call' = Append(call,
                [NewCall(LookupBySpecifierUrl(packageName, packagePath, semverMap))
                   EXCEPT !.via = "lookupBySpecifier"])
  /\ UNCHANGED <<installVars, cache, now, writes, cleared>>

\* cacache.get resolves with the entry of the URL
FreshGetResolves(c) ==
  /\ call[c].pc = "cacheGet"
  /\ call[c].resourceUrl \in DOMAIN cache
  /\ call' = [call EXCEPT ![c] =
                AfterFetchCDN(AfterFreshGet(@, cache[call[c].resourceUrl], "hit"))]
  /\ UNCHANGED <<installVars, cache, now, writes, cleared>>

\* cacache.get rejects, for want of an entry or on a read error: .catch(() => null)
FreshGetRejects(c) ==
  /\ call[c].pc = "cacheGet"
  /\ call' = [call EXCEPT ![c] =
                AfterFetchCDN(
                  AfterFreshGet(@, NULL, IF call[c].resourceUrl \in DOMAIN cache
                                           THEN "error" ELSE "missing"))]
  /\ UNCHANGED <<installVars, cache, now, writes, cleared>>

\* got resolves with the CDN's answer: the put is started and not awaited
FreshGotResolves(c) ==
  /\ call[c].pc = "got"
  /\ LET freshResult == Answer(call[c].resourceUrl)
         cacheUntilMatch == MaxAgeMatch(freshResult.headers.cacheControl)
         c1 == [call[c] EXCEPT
                  !.pc = "returned", !.got = "resolved", !.gotAt = now,
                  !.result = Result(freshResult.body, freshResult.headers,
                                    freshResult.statusCode, FALSE, FALSE)]
     IN  IF cacheUntilMatch # <<>>
           THEN /\ writes' = writes \cup {[url |-> call[c].resourceUrl, by |-> c,
                                           entry |-> FreshEntry(freshResult, now)]}
                /\ call' = [call EXCEPT ![c] =
                              AfterFetchCDN([c1 EXCEPT !.puts = @ + 1,
                                                       !.put = "pending"])]
           ELSE /\ writes' = writes
                /\ call' = [call EXCEPT ![c] = AfterFetchCDN(c1)]
  /\ UNCHANGED <<installVars, cache, now, cleared>>

\* the error of got is thrown whether an entry was read or not
AfterGotRejectsThrows(c) ==
  [c EXCEPT !.pc = "thrown", !.got = "rejected", !.gotAt = now, !.err = "NetworkError"]

\* fetchCDN's catch of the error of got
AfterGotRejects(c) ==
  IF c.cachedResult # NULL
    THEN [c EXCEPT !.pc = "returned", !.got = "rejected", !.gotAt = now,
                   !.result = Cached(c.cachedResult, TRUE)]
    ELSE [c EXCEPT !.pc = "thrown", !.got = "rejected", !.gotAt = now,
                   !.err = "NetworkError"]

\* got rejects: the entry read before, if any, is returned as stale
FreshGotRejects(c) ==
  /\ call[c].pc = "got"
  /\ call' = [call EXCEPT ![c] = AfterFetchCDN(AfterGotRejects(@))]
  /\ UNCHANGED <<installVars, cache, now, writes, cleared>>

\* a cacache.put of fetchCDN resolves: the entry is written
FreshPutResolves(w) ==
  /\ w \in writes
  /\ cache' = Put(cache, w.url, w.entry)
  /\ writes' = writes \ {w}
  /\ cleared' = NotCleared
  /\ call' = [call EXCEPT ![w.by] = AfterPut(@, "written")]
  /\ UNCHANGED <<installVars, now>>

\* a cacache.put of fetchCDN rejects: .catch(() => null)
FreshPutRejects(w) ==
  /\ w \in writes
  /\ writes' = writes \ {w}
  /\ call' = [call EXCEPT ![w.by] = AfterPut(@, "failed")]
  /\ UNCHANGED <<installVars, cache, now, cleared>>

\* time passes
Tick ==
  /\ now < MaxTime
  /\ now' = now + 1
  /\ UNCHANGED <<installVars, cache, call, writes, cleared>>

\* only the entries that have expired are removed
RmAllExpired(store) ==
  LET kept == {url \in DOMAIN store :
                 /\ "metadata" \in DOMAIN store[url]
                 /\ NotBefore(FreshUntilOf(store[url].metadata), now)}
  IN  [url \in kept |-> store[url]]

\* the store after cacache.rm.all
RmAll(store) == Empty

\* clearCache(), from its call to the resolution of its promise
ClearCache ==
  /\ cache' = RmAll(cache)
  /\ cleared' = [is |-> TRUE, removed |-> cache]
  /\ UNCHANGED <<installVars, now, call, writes>>

\* answers of the CDN with a max-age of one second and of none
OkAge1 == Response(200, Headers(UNDEFINED, UNDEFINED, UNDEFINED, <<"max-age=", "1">>), <<"B1">>)
OkAge0 == Response(200, Headers(UNDEFINED, UNDEFINED, UNDEFINED, <<"max-age=", "0">>), <<"B1">>)
FreshAnswers == {Ok, OkMaxAge, OkAge1, OkAge0, NotFoundMaxAge}

\* entries the store may hold when the process starts: one written under the
\* permanent policy, one without metadata, and one that fetchCDN wrote in an
\* earlier process and that expires at the second utc
Permanent(url) == UrlEntry(url, <<"B0">>, UNDEFINED)
NoMetadata == [data |-> <<"B0">>]
Earlier(utc) ==
  [data |-> <<"B0">>,
   metadata |-> [headers |-> OkAge1.headers, statusCode |-> 200,
                 freshUntil |-> [utc |-> utc]]]
Stores ==
  {f \in UNION {[S -> {Permanent(PinUrl), Permanent(QUrl), NoMetadata,
                       Earlier(0), Earlier(1)}] : S \in SUBSET {PinUrl, QUrl}} :
     \A url \in DOMAIN f : url = QUrl <=> f[url] = Permanent(QUrl)}

InitFresh ==
  /\ cdn \in [{PinUrl} -> FreshAnswers]
  /\ cache \in Stores
  /\ now = 0
  /\ call = <<>>
  /\ writes = {}
  /\ cleared = NotCleared
  /\ webDependencies = <<>>
  /\ runs = 0
  /\ lockfile = NULL
  /\ inMemoryCDNCache = Empty
  /\ task = <<>>
  /\ queue = <<>>
  /\ pendingCount = 0
  /\ newLockfile = Empty
  /\ resolutionError = NoError
  /\ genPc = "idle"
  /\ run = 0
  /\ prev = NoPrev
  /\ cdnStable = TRUE
  /\ arg = <<>>
  /\ out = <<>>

NextFresh ==
  \/ \E resourceUrl \in FetchArgs : FetchCDN(resourceUrl)
  \/ \E c \in DOMAIN call : FreshGetResolves(c)
  \/ \E c \in DOMAIN call : FreshGetRejects(c)
  \/ \E c \in DOMAIN call : FreshGotResolves(c)
  \/ \E c \in DOMAIN call : FreshGotRejects(c)
  \/ \E w \in writes : FreshPutResolves(w)
  \/ \E w \in writes : FreshPutRejects(w)
  \/ Tick
  \/ ClearCache

SpecFresh == InitFresh /\ [][NextFresh]_vars

\* the callers of lookupBySpecifier and loadByUrl: a specifier that is a package
\* name with no semver known for it, or a package name and a path with a
\* semver for the package, and a URL without its origin
PackageP == <<"p">>
LookupArgs ==
  {[packagePath |-> NoPath, semverMap |-> NoSemverMap],
   [packagePath |-> <<"x">>,
    semverMap |-> SemverMap([name \in {PackageP} |-> <<"1">>])]}
LoadArgs == {PinPath}

NextWrapped ==
  \/ \E url \in LoadArgs : LoadByUrl(url)
  \/ \E args \in LookupArgs :
       LookupBySpecifier(PackageP, args.packagePath, args.semverMap)
  \/ \E c \in DOMAIN call : FreshGetResolves(c)
  \/ \E c \in DOMAIN call : FreshGetRejects(c)
  \/ \E c \in DOMAIN call : FreshGotResolves(c)
  \/ \E c \in DOMAIN call : FreshGotRejects(c)
  \/ \E w \in writes : FreshPutResolves(w)
  \/ \E w \in writes : FreshPutRejects(w)
  \/ Tick
  \/ ClearCache

\* the CDN answers with and without a max-age, and with a 404
WrappedAnswers == {Ok, OkAge1, NotFoundMaxAge}

InitWrapped == InitFresh /\ cdn \in [{PinUrl} -> WrappedAnswers]

SpecWrapped == InitWrapped /\ [][NextWrapped]_vars

---------------------------------------------------------------------------
(* Properties *)

Started(t)  == t.pc # "queued"
Finished(t) == t.pc \in {"done", "failed"}

\* the errors only the lookup path of resolveDependencyByName throws
LookupErrors ==
  {"ReactWorkaround", "ComplexSemver", "FailedToBuild", "ImportUrlExpected",
   "UnexpectedResponse"}

\* C1: a task whose specifier the lockfile pins makes no lookup and no poll and
\* fails no check of its semver, whatever the semver is: it is in
\* resolveDependencyByUrl on the pinned URL, and every request it makes is for
\* that URL.
C1_PinFastPath ==
  \A i \in DOMAIN task :
    LET t == task[i]
    IN  Started(t) /\ Pinned(t.installSpecifier) =>
          /\ Lookups(t) = 0 /\ Polls(t) = 0
          /\ t.err \notin LookupErrors
          /\ t.pc \in {"cacheGet", "fetchUrl", "cachePut", "done", "failed"}
          /\ t.installUrl = NormalizeUrl(lockfile.imports[t.installSpecifier])
          /\ \A k \in 1..Len(t.calls) :
               t.calls[k].kind = "url" /\ t.calls[k].url = t.installUrl

\* a pinned task of a semver with a space in it has resolved
C1_Witness ==
  \E i \in DOMAIN task :
    /\ Pinned(task[i].installSpecifier)
    /\ task[i].packageSemver = Complex
    /\ task[i].pc = "done"

\* the response is a 200 of build status PENDING with a poll URL
IsPending(response) ==
  /\ response.statusCode = 200
  /\ response.headers.xImportStatus = <<"PENDING">>
  /\ Truthy(response.headers.xImportUrl)

\* the response is a 200 of build status SUCCESS
IsSuccess(response) ==
  response.statusCode = 200 /\ response.headers.xImportStatus = <<"SUCCESS">>

\* t got PENDING with a poll URL for its first lookup and 200 for its poll, and
\* the CDN answered, or would have answered, SUCCESS when t looked up again
PendingThenSuccess(t) ==
  /\ Len(t.calls) >= 3
  /\ t.calls[1].kind = "lookup" /\ IsPending(t.calls[1].response)
  /\ t.calls[2].kind = "poll" /\ t.calls[2].response.statusCode = 200
  /\ t.calls[3].kind = "lookup" /\ IsSuccess(t.calls[3].cdnNow)

\* C2: a call whose first lookup is answered PENDING with a poll URL, whose poll
\* is answered 200 and whose second lookup the CDN answers SUCCESS returns the
\* body and the pinned URL of that SUCCESS answer after exactly two lookups,
\* whatever the other headers of the first answer.
C2_RetryObservesSuccess ==
  \A i \in DOMAIN task :
    LET t == task[i]
    IN  PendingThenSuccess(t) =>
          /\ t.pc \in {"done"}
          /\ t.body = t.calls[3].cdnNow.body
          /\ t.pinnedUrl = PIKA_CDN \o t.calls[3].cdnNow.headers.xPinnedUrl
          /\ Lookups(t) = 2

\* C3: a call makes at most two lookups and at most one poll; its second lookup
\* is made with canRetry false; and when the second lookup is answered 200 with
\* a build status other than SUCCESS the call throws 'Failed to build' and asks
\* nothing more.
C3_SingleRetry ==
  \A i \in DOMAIN task :
    LET t == task[i]
        second == {k \in CallsOf(t, "lookup") : \E j \in CallsOf(t, "lookup") : j < k}
    IN  /\ Lookups(t) <= 2 /\ Polls(t) <= 1
        /\ Polls(t) = 1 /\ Lookups(t) = 2 => ~t.canRetry
        /\ \A k \in second :
             /\ k = Len(t.calls)
             /\ t.calls[k].response.statusCode = 200 /\ ~IsSuccess(t.calls[k].response)
                  => t.pc = "failed" /\ t.err = "FailedToBuild"

\* a call was answered PENDING by both of its lookups and has failed
C3_Witness ==
  \E i \in DOMAIN task :
    LET t == task[i]
    IN  /\ Len(t.calls) = 3
        /\ IsPending(t.calls[1].response) /\ IsPending(t.calls[3].response)
        /\ t.calls[3].from = "net"
        /\ t.pc = "failed" /\ t.err = "FailedToBuild"

\* u is a string that starts with the origin and a path
IsCdnUrl(u) == u # UNDEFINED /\ StartsWith(u, PIKA_CDN \o <<"/">>)

\* C4: the pinnedUrl of every result is defined and starts with the CDN origin.
C4_PinnedUrlAbsolute ==
  \A i \in DOMAIN task : task[i].pc = "done" => IsCdnUrl(task[i].pinnedUrl)

\* the generateImportMap call has returned or thrown
Over == genPc \in {"returned", "rejected"}

\* the call of t waits for got or for cacache
InFlight(t) == t.pc \in {"cacheGet", "cachePut", "lookup", "poll", "fetchUrl"}

\* C6: whatever error has been recorded, every task of the call has finished,
\* is under way, or still waits in the queue to be started: none is dropped;
\* and the call returns or throws only once all of them have finished and the
\* queue is drained, throwing if and only if an error was recorded.
C6_NoEarlyAbort ==
  /\ genPc # "idle" =>
       /\ DOMAIN task = 1..Len(webDependencies)
       /\ \A i \in DOMAIN task :
            \/ Finished(task[i])
            \/ InFlight(task[i])
            \/ task[i].pc = "queued" /\ \E k \in 1..Len(queue) : queue[k] = i
  /\ Over =>
       /\ \A i \in DOMAIN task : Finished(task[i])
       /\ queue = <<>> /\ pendingCount = 0
       /\ genPc = "rejected" <=> \E i \in DOMAIN task : task[i].pc = "failed"

\* one task has failed, and another resolved after the failure was recorded
C6_Witness ==
  /\ genPc = "rejected"
  /\ \E i, j \in DOMAIN task :
       /\ task[i].pc = "failed" /\ task[i].err = "ComplexSemver"
       /\ task[j].pc = "done" /\ Requests(task[j]) > 0

\* the specifiers of the tasks that have resolved
Resolved == {task[i].installSpecifier : i \in {j \in DOMAIN task : task[j].pc = "done"}}

\* C7: the keys of newLockfile.imports are the specifiers of the tasks that have
\* resolved, each with the pinnedUrl its resolution returned; a specifier whose
\* resolution failed has no entry, and a map that is returned has an entry for
\* every specifier of webDependencies.
C7_MapIsResolved ==
  /\ DOMAIN newLockfile = Resolved
  /\ \A i \in DOMAIN task :
       task[i].pc = "done" => newLockfile[task[i].installSpecifier] = task[i].pinnedUrl
  /\ genPc = "returned" =>
       DOMAIN newLockfile = {webDependencies[i].spec : i \in 1..Len(webDependencies)}

\* one task has resolved and has its entry, another has failed and has none
C7_Witness ==
  \E i, j \in DOMAIN task :
    /\ task[i].pc = "done" /\ task[i].installSpecifier \in DOMAIN newLockfile
    /\ task[j].pc = "failed" /\ task[j].installSpecifier \notin DOMAIN newLockfile

\* task i of this call and of the call before it are two calls of
\* resolveDependencyByUrl in sequence with the same URL: the specifier is pinned,
\* and no other task of the calls resolves a pinned URL
InSequence(i) ==
  /\ run >= 2 /\ i \in DOMAIN prev.task /\ i \in DOMAIN task
  /\ Started(task[i])
  /\ Pinned(task[i].installSpecifier)
  /\ \A j \in DOMAIN task : j # i => ~Pinned(task[j].installSpecifier)

\* the call t returned what a fetch answered with status 200
Fetched200(t) ==
  /\ t.pc = "done"
  /\ \E k \in 1..Len(t.calls) :
       t.calls[k].kind = "url" /\ t.calls[k].response.statusCode = 200

\* the call t returned what a fetch answered with status 200 and a cache-control
\* header with a max-age
Fetched200MaxAge(t) ==
  /\ t.pc = "done"
  /\ \E k \in 1..Len(t.calls) :
       /\ t.calls[k].kind = "url" /\ t.calls[k].response.statusCode = 200
       /\ HasMaxAge(t.calls[k].response.headers)

\* the second of two calls in sequence sends no request and returns the body
\* the first returned
SecondFromCache(i) ==
  /\ Requests(task[i]) = 0
  /\ task[i].pc = "done" => task[i].body = prev.task[i].body

C9_SameMapTwice ==
  run >= 2 /\ prev.genPc = "returned" /\ genPc = "returned" /\ cdnStable
    => newLockfile = prev.newLockfile

\* the tasks under way
Running == {i \in DOMAIN task : InFlight(task[i])}

\* C8: at most 16 tasks are under way at any time, pendingCount counts them, and
\* a task waits in the queue only while 16 are under way, the tasks being
\* started in the order of webDependencies.
C8_Ceiling ==
  /\ Cardinality(Running) <= 16
  /\ pendingCount = Cardinality(Running)
  /\ queue # <<>> => Cardinality(Running) = 16
  /\ \A k \in 1..Len(queue) :
       /\ task[queue[k]].pc = "queued"
       /\ queue[k] = Len(webDependencies) - Len(queue) + k

\* 16 tasks are under way, one of them started from the queue, and one waits
C8_Witness ==
  /\ Len(webDependencies) > 16
  /\ Cardinality(Running) = 16
  /\ \E i \in Running : i > 16

\* C10: the lookup URL of [@scope/]name[/seg]* and semver is
\* {origin}/[@scope/]name@semver[/seg]*, for any number of segments.
C10_LookupUrl ==
  out.url # <<>> =>
    out.url = PIKA_CDN \o <<"/">> \o PackageName(arg) \o <<"@">> \o arg.semver
                \o Slashed(arg.path)

\* the semver is one that resolveDependencyByName rejects
Unsupported(packageSemver) ==
  \/ Includes(packageSemver, " ") \/ Includes(packageSemver, ":")
  \/ StartsWith(packageSemver, ReactEsm) \/ StartsWith(packageSemver, PikaReact)

\* C19: the call for an unpinned specifier whose semver has a space or a colon
\* in it, or starts with one of the two workaround prefixes, has failed on its
\* semver as soon as it has started, with no fetchCDNResource call returned, no
\* request sent, nothing in the memo and nothing read from or written to the
\* store; the call for an unpinned specifier of semver 'latest' does not fail
\* on its semver and looks up {origin}/name@latest.
C19_SemverRejectedFirst ==
  \A i \in DOMAIN task :
    LET t == task[i]
    IN  Started(t) /\ ~Pinned(t.installSpecifier) =>
          /\ Unsupported(t.packageSemver) =>
                /\ t.pc = "failed" /\ t.err \in {"ComplexSemver", "ReactWorkaround"}
                /\ t.calls = <<>> /\ Requests(t) = 0 /\ t.cachePuts = 0
                /\ inMemoryCDNCache = Empty /\ cache = Empty
          /\ t.packageSemver = Latest =>
                /\ t.err \notin {"ComplexSemver", "ReactWorkaround"}
                /\ t.awaiting # UNDEFINED \/ CallsOf(t, "lookup") # {}
                /\ t.installUrl = PIKA_CDN \o <<"/">> \o t.installSpecifier \o <<"@">> \o Latest

\* the call for an unpinned specifier of a semver with a colon in it has made
\* generateImportMap throw
C19_Witness ==
  /\ genPc = "rejected"
  /\ \E i \in DOMAIN task :
       /\ ~Pinned(task[i].installSpecifier)
       /\ task[i].packageSemver = Colon
       /\ task[i].err = "ComplexSemver"

\* C20: a response of a status other than 200 is the last one its call gets,
\* from the network or from the memo: the call has failed, with 'Unexpected
\* response' after a poll and 'Failed to resolve' after a lookup, first or
\* retried, or after the fetch of a URL, and it has written nothing to the
\* store.
C20_Non200IsFatal ==
  \A i \in DOMAIN task :
    LET t == task[i]
    IN  \A k \in 1..Len(t.calls) :
          t.calls[k].response.statusCode # 200 =>
            /\ k = Len(t.calls)
            /\ t.pc = "failed"
            /\ t.err = IF t.calls[k].kind = "poll" THEN "UnexpectedResponse"
                       ELSE "FailedToResolve"
            /\ t.cachePuts = 0

\* a call whose first lookup was answered PENDING and whose poll was answered
\* 200 got a 404 for its second lookup and has failed
C20_Witness ==
  \E i \in DOMAIN task :
    LET t == task[i]
    IN  /\ Len(t.calls) = 3
        /\ IsPending(t.calls[1].response)
        /\ t.calls[2].kind = "poll" /\ t.calls[2].response.statusCode = 200
        /\ t.calls[3].kind = "lookup" /\ t.calls[3].response.statusCode = 404
        /\ t.pc = "failed" /\ t.err = "FailedToResolve"

\* C16: the pinnedUrl a call has returned is a key of the store, and the entry
\* of that key holds the body the call returned.
C16_ResolvedIsCached ==
  \A i \in DOMAIN task :
    task[i].pc = "done" =>
      /\ task[i].pinnedUrl \in DOMAIN cache
      /\ cache[task[i].pinnedUrl].data = task[i].body

\* the tasks that fail in this step, and the one of them that fails first
NewlyFailed ==
  {i \in DOMAIN task' : task'[i].pc = "failed" /\ (run' # run \/ task[i].pc # "failed")}
FirstFailed == CHOOSE i \in NewlyFailed : \A j \in NewlyFailed : i <= j

\* C18: within a call of generateImportMap an error that is recorded stays the
\* recorded one whatever fails later; the error recorded is that of the task
\* that was the first to fail, in time; and the call throws only with an error
\* recorded, which is the error of a task that failed.
C18_FirstErrorWins ==
  [][/\ IF run' = run /\ resolutionError # NoError
          THEN resolutionError' = resolutionError
        ELSE IF NewlyFailed = {}
          THEN resolutionError' = NoError
        ELSE resolutionError' = [task |-> FirstFailed, kind |-> task'[FirstFailed].err]
     /\ genPc' = "rejected" =>
          /\ resolutionError' # NoError
          /\ task'[resolutionError'.task].pc = "failed"
          /\ task'[resolutionError'.task].err = resolutionError'.kind]_vars

\* the call has thrown the error of its second task, which failed on its
\* semver, the first task having failed later, after a request
C18_Witness ==
  /\ genPc = "rejected"
  /\ Len(webDependencies) >= 2
  /\ resolutionError = [task |-> 2, kind |-> "ComplexSemver"]
  /\ task[1].pc = "failed" /\ Requests(task[1]) > 0

\* the CDN has published a pinned URL again with another body
Republished == \E url \in DOMAIN cdn : cdn[url].body = <<"B2">>

\* no step changes the body of an entry of the store, or removes the entry
BodiesKept ==
  \A url \in DOMAIN cache : url \in DOMAIN cache' /\ cache'[url].data = cache[url].data

FetchCDNWrote(entry) == "at" \in DOMAIN entry

\* C11: a call whose read of the store gave an entry with a freshUntil in the
\* future has returned the body, the headers and the status of that entry with
\* isCached true and isStale false, has sent no request and started no write.
C11_FreshHit ==
  \A c \in DOMAIN call :
    LET entry == call[c].cachedResult
    IN  /\ call[c].read = "hit"
        /\ "metadata" \in DOMAIN entry
        /\ "freshUntil" \in DOMAIN entry.metadata
        /\ entry.metadata.freshUntil.utc * TicksPerSecond > call[c].readAt
        => /\ call[c].pc = "returned"
           /\ call[c].result = [body |-> entry.data, headers |-> entry.metadata.headers,
                                statusCode |-> entry.metadata.statusCode,
                                isCached |-> TRUE, isStale |-> FALSE]
           /\ call[c].got = "none"
           /\ call[c].puts = 0
           /\ \A w \in writes : w.by # c

\* a call has returned, without a request, the entry that an earlier call
\* wrote after its fetch
C11_Witness ==
  \E c \in DOMAIN call :
    /\ call[c].pc = "returned" /\ call[c].got = "none"
    /\ FetchCDNWrote(call[c].cachedResult)
    /\ call[c].result.isCached /\ ~call[c].result.isStale

\* C12: a call whose request failed has returned the entry its read of the
\* store gave, fresh or not, with isCached and isStale true, having started no
\* write, or has thrown the network error if the read gave none; and a result
\* with isStale true is returned only by a call whose request failed.
C12_StaleOnFailure ==
  \A c \in DOMAIN call :
    LET entry == call[c].cachedResult
    IN  /\ call[c].got = "rejected" /\ entry # NULL =>
             /\ call[c].pc = "returned"
             /\ call[c].result = [body |-> entry.data,
                                  headers |-> Field(entry.metadata, "headers"),
                                  statusCode |-> Field(entry.metadata, "statusCode"),
                                  isCached |-> TRUE, isStale |-> TRUE]
             /\ call[c].puts = 0
             /\ \A w \in writes : w.by # c
        /\ call[c].got = "rejected" /\ entry = NULL =>
             /\ call[c].pc = "thrown" /\ call[c].err = "NetworkError"
             /\ call[c].result = NULL
        /\ call[c].got = "resolved" =>
             /\ call[c].pc = "returned"
             /\ ~call[c].result.isStale /\ ~call[c].result.isCached
        /\ call[c].pc = "returned" /\ call[c].result.isStale => call[c].got = "rejected"

\* a call whose request failed has returned as stale an entry that had expired
\* when it was read
C12_Witness ==
  \E c \in DOMAIN call :
    /\ call[c].got = "rejected" /\ call[c].pc = "returned"
    /\ call[c].result.isStale
    /\ "freshUntil" \in DOMAIN call[c].cachedResult.metadata
    /\ FreshUntilOf(call[c].cachedResult.metadata) < call[c].readAt

\* the entries fetchCDN has written or is writing
Written ==
  {cache[url] : url \in {u \in DOMAIN cache : FetchCDNWrote(cache[u])}}
    \cup {w.entry : w \in writes}

\* a call whose response had no max-age in its cache-control has started no write
NoMaxAgeNoWrite ==
  \A c \in DOMAIN call :
    call[c].got = "resolved" /\ MaxAgeMatch(call[c].result.headers.cacheControl) = <<>>
      => call[c].puts = 0 /\ \A w \in writes : w.by # c

\* C14 as stated: the freshUntil of an entry that fetchCDN writes is the time
\* at which the response came plus the max-age of that response, whose body and
\* headers the entry holds; and a response without max-age is not written.
C14_FreshUntilExact ==
  /\ \A entry \in Written :
       LET digits == MaxAgeMatch(entry.metadata.headers.cacheControl)
       IN  /\ digits # <<>>
           /\ entry.metadata.freshUntil.utc * TicksPerSecond
                = entry.at + ParseInt(digits) * TicksPerSecond
  /\ NoMaxAgeNoWrite

\* C14, amended: the freshUntil of an entry that fetchCDN writes is the whole
\* second in which the time at which the response came plus the max-age of that
\* response lies; and a response without max-age is not written.
C14_FreshUntilWholeSecond ==
  /\ \A entry \in Written :
       LET digits == MaxAgeMatch(entry.metadata.headers.cacheControl)
       IN  /\ digits # <<>>
           /\ entry.metadata.freshUntil.utc
                = (entry.at + ParseInt(digits) * TicksPerSecond) \div TicksPerSecond
  /\ NoMaxAgeNoWrite

\* the store holds an entry of a response with max-age=1 that came between two
\* whole seconds
C14_Witness ==
  \E url \in DOMAIN cache :
    /\ FetchCDNWrote(cache[url])
    /\ cache[url].at % TicksPerSecond # 0
    /\ MaxAgeMatch(cache[url].metadata.headers.cacheControl) = <<"1">>

\* the entry is not one that fetchCDN can have written: it has no metadata, or
\* its metadata has no freshUntil
Corrupt(entry) ==
  "metadata" \notin DOMAIN entry \/ "freshUntil" \notin DOMAIN entry.metadata

\* C15: a call whose read of the store failed, gave no entry or gave a corrupt
\* entry goes on as after a miss: it throws nothing but the error of its
\* request, it sends the request, and it returns what the network answered.
C15_ReadFailureIsMiss ==
  \A c \in DOMAIN call :
    call[c].read # "none" /\ (call[c].cachedResult = NULL \/ Corrupt(call[c].cachedResult))
      => /\ call[c].err \in {"none", "NetworkError"}
         /\ call[c].pc = "thrown" => call[c].got = "rejected"
         /\ call[c].pc = "returned" =>
              call[c].got = "resolved" /\ ~call[c].result.isCached
         /\ call[c].got = "rejected" => call[c].pc = "thrown"

\* C17: once clearCache has completed, and until the store is written again,
\* the store has no entry: every read of it is a miss.
C17_ClearedIsEmpty ==
  cleared.is =>
    /\ DOMAIN cache = {}
    /\ \A c \in DOMAIN call :
         call[c].pc = "cacheGet" => call[c].resourceUrl \notin DOMAIN cache

\* clearCache has removed an entry of the permanent policy together with an
\* entry that fetchCDN wrote and that had not expired, and a call is about to
\* read the store
C17_Witness ==
  /\ cleared.is
  /\ QUrl \in DOMAIN cleared.removed
  /\ PinUrl \in DOMAIN cleared.removed
  /\ FetchCDNWrote(cleared.removed[PinUrl])
  /\ FreshUntilOf(cleared.removed[PinUrl].metadata) > now
  /\ \E c \in DOMAIN call : call[c].pc = "cacheGet"

\* C21: a call whose first lookup was answered 200 with a build status that is
\* neither SUCCESS nor FAIL and with no x-import-url has failed with
\* 'X-Import-URL header expected', and one whose first lookup was answered 200
\* with the status FAIL has failed with 'Failed to build', its canRetry still
\* true and whether or not an x-import-url came with it: in both cases that
\* lookup is the only fetchCDNResource call it has made, and no poll was sent.
C21_NoPollWithoutUrlOrOnFail ==
  \A i \in DOMAIN task :
    LET t == task[i]
    IN  Len(t.calls) >= 1 /\ t.calls[1].kind = "lookup"
          /\ t.calls[1].response.statusCode = 200 =>
          LET headers == t.calls[1].response.headers
          IN  /\ headers.xImportStatus \notin {<<"SUCCESS">>, <<"FAIL">>}
                   /\ ~Truthy(headers.xImportUrl) =>
                     /\ t.pc = "failed" /\ t.err = "ImportUrlExpected"
                     /\ Len(t.calls) = 1 /\ Polls(t) = 0 /\ Lookups(t) = 1
              /\ headers.xImportStatus = <<"FAIL">> =>
                     /\ t.pc = "failed" /\ t.err = "FailedToBuild"
                     /\ t.canRetry
                     /\ Len(t.calls) = 1 /\ Polls(t) = 0 /\ Lookups(t) = 1

\* a call whose lookup was answered 200 without a build status and without an
\* x-import-url has failed
C21_Witness ==
  \E i \in DOMAIN task :
    /\ Len(task[i].calls) = 1
    /\ task[i].calls[1].response = LkNoStatus
    /\ task[i].pc = "failed" /\ task[i].err = "ImportUrlExpected"

\* the fetchCDNResource calls of task i that return in this step, and whether
\* task i sends a request in this step
Before(i)   == IF run' = run /\ i \in DOMAIN task THEN Len(task[i].calls) ELSE 0
Returned(i) == (Before(i) + 1)..Len(task'[i].calls)
WasInFlight(i, url) ==
  /\ run' = run /\ i \in DOMAIN task
  /\ task[i].pc \in {"lookup", "poll", "fetchUrl"} /\ task[i].awaiting = url
Sends(i) ==
  /\ task'[i].pc \in {"lookup", "poll", "fetchUrl"}
  /\ ~(WasInFlight(i, task'[i].awaiting) /\ Len(task'[i].calls) = Before(i))

\* the memo holds only responses with a max-age signal
Signalled == \A url \in DOMAIN inMemoryCDNCache : HasMaxAge(inMemoryCDNCache[url].headers)

\* a step of the memo: no URL leaves it; a call that returns a response of the
\* network is one whose request was in flight, and its response is in the memo
\* afterwards if and only if it has the signal, whatever its status code; a
\* call for a URL of the memo returns the memo's response; a request is sent
\* only for a URL the memo does not hold.
MemoStep ==
  /\ Signalled'
  /\ DOMAIN inMemoryCDNCache \subseteq DOMAIN inMemoryCDNCache'
  /\ \A i \in DOMAIN task' :
       /\ \A k \in Returned(i) :
            LET c == task'[i].calls[k]
            IN  /\ c.url = NormalizeUrl(c.url)
                /\ c.from = "net" =>
                     /\ WasInFlight(i, c.url)
                     /\ HasMaxAge(c.response.headers) =>
                          c.url \in DOMAIN inMemoryCDNCache'
                            /\ inMemoryCDNCache'[c.url] = c.response
                     /\ ~HasMaxAge(c.response.headers) /\ c.url \in DOMAIN inMemoryCDNCache' =>
                          c.url \in DOMAIN inMemoryCDNCache
                /\ c.from = "memo" =>
                     c.url \in DOMAIN inMemoryCDNCache'
                       /\ c.response = inMemoryCDNCache'[c.url]
       /\ Sends(i) => task'[i].awaiting \notin DOMAIN inMemoryCDNCache'

\* the response the memo holds for a URL is never replaced
MemoKept ==
  \A url \in DOMAIN inMemoryCDNCache :
    url \in DOMAIN inMemoryCDNCache' /\ inMemoryCDNCache'[url] = inMemoryCDNCache[url]

\* the response the memo holds for a URL is replaced only by the response of a
\* request for that URL that was in flight when the first one arrived
MemoReplacedByInFlight ==
  \A url \in DOMAIN inMemoryCDNCache :
    url \in DOMAIN inMemoryCDNCache' /\ inMemoryCDNCache'[url] # inMemoryCDNCache[url] =>
      \E i \in DOMAIN task' : \E k \in Returned(i) :
        /\ task'[i].calls[k].from = "net" /\ task'[i].calls[k].url = url
        /\ task'[i].calls[k].response = inMemoryCDNCache'[url]

\* C22 (as stated): the memo keeps every response with a max-age signal, of
\* any status, and no other; it never drops a URL; once it holds a response
\* for a URL every later call for the URL returns that same response and sends
\* no request.
C22_MemoServesSame == [][MemoStep /\ MemoKept]_vars

\* C22 (amended): the memo keeps every response with a max-age signal, of any
\* status, and no other; it never drops a URL; once it holds a response for a
\* URL every later call for the URL sends no request and returns the response
\* the memo holds then, which is the first one received unless a request for
\* the URL that was already in flight has brought another since.
C22_MemoServes == [][MemoStep /\ MemoReplacedByInFlight]_vars

\* a call was answered from the memo with a 404 response
C22_Witness ==
  \E i \in DOMAIN task : \E k \in 1..Len(task[i].calls) :
    /\ task[i].calls[k].from = "memo"
    /\ task[i].calls[k].response.statusCode = 404
    /\ task[i].calls[k].url \in DOMAIN inMemoryCDNCache

\* the response resolveDependencyByUrl got for its URL, once it has one
Fetched(t) == t.calls[Len(t.calls)].response
Writable(t) ==
  /\ t.calls # <<>> /\ t.calls[Len(t.calls)].kind = "url"
  /\ Fetched(t).statusCode = 200 /\ HasMaxAge(Fetched(t).headers)

\* a change of the store is the write of one call of resolveDependencyByUrl,
\* which missed the cache and got a 200 response with the signal, under the
\* origin-qualified form of the URL of the lockfile, every other entry kept
StoreStep ==
  cache' # cache =>
    \E i \in DOMAIN task :
      LET t   == task[i]
          url == NormalizeUrl(lockfile.imports[t.installSpecifier])
      IN  /\ Pinned(t.installSpecifier) /\ t.pc = "cachePut" /\ Writable(t)
          /\ t.cachePuts = 0 /\ task'[i].cachePuts = 1
          /\ StartsWith(url, PIKA_CDN)
          /\ DOMAIN cache' = DOMAIN cache \cup {url}
          /\ cache'[url].data = Fetched(t).body
          /\ cache'[url].metadata.installUrl = url
          /\ \A other \in DOMAIN cache \ {url} : cache'[other] = cache[other]
          /\ \A j \in DOMAIN task \ {i} : task'[j].cachePuts = task[j].cachePuts

\* a call of resolveDependencyByUrl has written at most once; it has written
\* before it returns from a 200 response with the signal; it never writes, nor
\* starts a write, after a cache hit, a non-200 response or a 200 response
\* without the signal
WritesAccounted ==
  \A i \in DOMAIN task :
    LET t == task[i]
    IN  Pinned(t.installSpecifier) =>
          /\ t.cachePuts <= 1
          /\ t.pc \in {"resolved", "done"} /\ Writable(t) => t.cachePuts = 1
          /\ t.pc = "cachePut" => Writable(t) /\ t.cachePuts = 0
          /\ ~Writable(t) => t.cachePuts = 0

Fresh(c) ==
  Result(Answer(call[c].resourceUrl).body, Answer(call[c].resourceUrl).headers,
         Answer(call[c].resourceUrl).statusCode, FALSE, FALSE)

\* C24: a call of fetchCDN that got a response has returned it as fresh
\* (isCached and isStale false) with no error, and that is so while its write
\* to the store is still pending, after the write has succeeded and after it
\* has failed; a write is pending only for a call that has returned; and no
\* call, this one or a later one, has thrown for another reason than its own
\* network failure without an entry or its own read of the store.
C24_FireAndForget ==
  \A c \in DOMAIN call :
    /\ call[c].got = "resolved" =>
         /\ call[c].pc = "returned" /\ call[c].err = "none"
         /\ call[c].result = Fresh(c)
         /\ call[c].put \in {"none", "pending", "written", "failed"}
         /\ call[c].put = "pending" <=> \E w \in writes : w.by = c
         /\ call[c].put = "none" <=> call[c].puts = 0
    /\ call[c].got # "resolved" =>
         call[c].put = "none" /\ \A w \in writes : w.by # c
    /\ call[c].pc = "thrown" =>
         \/ /\ call[c].err = "NetworkError" /\ call[c].got = "rejected"
            /\ call[c].cachedResult = NULL
         \/ /\ call[c].err = "TypeError" /\ call[c].read = "hit"
            /\ "metadata" \notin DOMAIN call[c].cachedResult

\* a call has returned its response as fresh and its write has failed since,
\* and a later call has returned too
C24_Witness ==
  \E c, d \in DOMAIN call :
    /\ c < d
    /\ call[c].pc = "returned" /\ call[c].put = "failed"
    /\ call[c].result = Fresh(c)
    /\ call[d].pc = "returned"

\* C25: a call of lookupBySpecifier or loadByUrl whose fetchCDN call has
\* settled has returned a value: the error as {error} when fetchCDN threw, and
\* otherwise error null with the body and the isCached and isStale flags that
\* fetchCDN returned, a stale entry and a 404 response included.
C25_NeverRejects ==
  \A c \in DOMAIN call :
    /\ call[c].pc \in {"returned", "thrown"} <=> call[c].value # NULL
    /\ call[c].pc = "thrown" => call[c].value = [error |-> call[c].err]
    /\ call[c].pc = "returned" =>
         /\ call[c].value.error = "null"
         /\ call[c].value.body = call[c].result.body
         /\ call[c].value.isCached = call[c].result.isCached
         /\ call[c].value.isStale = call[c].result.isStale

\* the same of loadByUrl, and of lookupBySpecifier when the headers that
\* fetchCDN returned are defined
NeverRejectsWithHeaders ==
  \A c \in DOMAIN call :
    /\ call[c].pc \in {"returned", "thrown"} <=> call[c].value # NULL
    /\ call[c].pc = "thrown" => call[c].value = [error |-> call[c].err]
    /\ call[c].pc = "returned" /\ (call[c].via = "loadByUrl" \/ HasHeaders(call[c])) =>
         /\ call[c].value.error = "null"
         /\ call[c].value.body = call[c].result.body
         /\ call[c].value.isCached = call[c].result.isCached
         /\ call[c].value.isStale = call[c].result.isStale

====
